---- MODULE Spec2Model ----
(***************************************************************************)
(* Model of DoSFuncs.py (depth-of-search calculations).                    *)
(*                                                                         *)
(* Arrays are sequences: element j of a sequence is element j-1 of the     *)
(* numpy array it models.  Real numbers are exact rationals <<n, d>> in    *)
(* lowest terms; the inputs are drawn from sets on which every square root *)
(* and every arcsin/cos composition of the code is rational, so that each  *)
(* value is computed exactly as the code computes it.                      *)
(***************************************************************************)
EXTENDS Integers, Sequences, FiniteSets, TLC

VARIABLES
    pc,         \* position of the running computation
    sel_t0,     \* select_obs argument t0
    sel_max,    \* select_obs argument maxTime
    sel_ck,     \* select_obs argument ck
    xs,         \* select_obs: number of 0/1 variables created
    conCoef,    \* select_obs: coefficients of constraint1
    conUb,      \* select_obs: upper bound of constraint1
    objCoef,    \* select_obs: coefficients of the objective
    node,       \* solver: next candidate assignment to examine
    incumbent,  \* solver: best feasible assignment found so far (<<>> if none)
    hasInc,     \* solver: whether an incumbent exists
    objValue,   \* select_obs: solver.Objective().Value()
    sInds,      \* select_obs: returned indices
    g_p,        \* one_DoS_bins argument p
    g_smin,     \* one_DoS_bins argument smin
    g_smax,     \* one_DoS_bins argument smax
    g_Cmin,     \* one_DoS_bins argument Cmin, one value per grid column
    tmp,        \* one_DoS_bins: the corner values from one_DoS_grid
    fbins,      \* one_DoS_bins: the returned bin values
    prevTmp,    \* corner values of the previous call (lower floor)
    prevBins,   \* bin values of the previous call (lower floor)
    d_a,        \* DoS_sum argument a (semi-major axis bin edges)
    d_R,        \* DoS_sum argument R (radius bin edges)
    d_pexp,     \* DoS_sum argument pexp
    d_smin,     \* DoS_sum argument smin
    d_smax,     \* DoS_sum argument smax
    d_Cinst,    \* DoS_sum argument C_inst: the level of each star's flat curve
    d_i,        \* DoS_sum: number of stars summed so far
    d_Cmin,     \* DoS_sum: expected Cmin per edge of the last star summed
    DoS,        \* DoS_sum: the running sum
    cfg,        \* __init__: arguments and the data EXOSIMS supplies
    TL,         \* __init__: self.sim.TargetList.dist, one entry per star
    c_Rmin,     \* __init__: Rmin
    c_Rmax,     \* __init__: Rmax
    c_smin,     \* __init__: smin
    c_smax,     \* __init__: smax
    c_tint,     \* __init__: t_int
    c_ck,       \* __init__: ck, in hundredths of its unit
    c_Cinst,    \* __init__: C_inst, the level of each star's flat curve
    ckPieces,   \* find_ck: the integrals taken for each star
    result,     \* __init__: self.result
    resKeys,    \* __init__: the keys of self.result set so far
    err         \* the exception raised, "" if none

selVars == <<sel_t0, sel_max, sel_ck, xs, conCoef, conUb, objCoef, node,
             incumbent, hasInc, objValue, sInds>>

gridVars == <<g_p, g_smin, g_smax, g_Cmin, tmp, fbins, prevTmp, prevBins>>

sumVars == <<d_a, d_R, d_pexp, d_smin, d_smax, d_Cinst, d_i, d_Cmin, DoS>>

ctorVars == <<cfg, TL, c_Rmin, c_Rmax, c_smin, c_smax, c_tint, c_ck, c_Cinst,
              ckPieces, result, resKeys, err>>

vars == <<pc, selVars, gridVars, sumVars, ctorVars>>

----------------------------------------------------------------------------
(* Bounds of the model *)
MaxStars == 2
MaxT == 2
MaxCk == 2
MaxBudget == 3
MaxLevel == 3
MaxSumStars == 2
MaxCtorStars == 2
MaxCkStars == 1

----------------------------------------------------------------------------
(* Generic helpers *)

RECURSIVE SumSeq(_)
SumSeq(s) == IF s = <<>> THEN 0 ELSE s[1] + SumSeq(Tail(s))

RECURSIVE Pow2(_)
Pow2(n) == IF n = 0 THEN 1 ELSE 2 * Pow2(n - 1)

\* numpy fancy indexing arr[idx] for an index sequence idx
Take(arr, idx) == [k \in 1..Len(idx) |-> arr[idx[k]]]

\* np.where(mask)[0]: the increasing sequence of the indices where mask holds
RECURSIVE WhereUpTo(_, _)
WhereUpTo(mask, n) ==
    IF n = 0 THEN <<>>
    ELSE IF mask[n] THEN Append(WhereUpTo(mask, n - 1), n)
         ELSE WhereUpTo(mask, n - 1)

Where(mask) == WhereUpTo(mask, Len(mask))

----------------------------------------------------------------------------
(* Exact arithmetic: a real is a pair <<n, d>> with d > 0 in lowest terms.  *)
(* NaN, the float that 0.0/0.0 produces, is <<0, 0>>: every comparison with *)
(* it is false.                                                             *)

Abs(n) == IF n < 0 THEN 0 - n ELSE n

RECURSIVE GCD(_, _)
GCD(m, n) == IF n = 0 THEN m ELSE GCD(n, m % n)

NaN == <<0, 0>>
IsNaN(x) == x[2] = 0

Frac(n, d) ==
    IF d = 0 THEN NaN
    ELSE LET g == GCD(Abs(n), Abs(d))
             sg == IF d < 0 THEN 0 - 1 ELSE 1
         IN  <<sg * (n \div g), sg * (d \div g)>>

Rat(n) == <<n, 1>>
\* the two numerators over the least common denominator
NumL(x, y) == x[1] * (y[2] \div GCD(x[2], y[2]))
NumR(x, y) == y[1] * (x[2] \div GCD(x[2], y[2]))
RAdd(x, y) == IF IsNaN(x) \/ IsNaN(y) THEN NaN
              ELSE Frac(NumL(x, y) + NumR(x, y),
                        x[2] * (y[2] \div GCD(x[2], y[2])))
RNeg(x) == <<0 - x[1], x[2]>>
RSub(x, y) == RAdd(x, RNeg(y))
RMul(x, y) == IF IsNaN(x) \/ IsNaN(y) THEN NaN
              ELSE Frac(x[1] * y[1], x[2] * y[2])
\* float division; the only zero divisor the code meets is 0.0/0.0
RDiv(x, y) == IF IsNaN(x) \/ IsNaN(y) \/ y[1] = 0 THEN NaN
              ELSE Frac(x[1] * y[2], x[2] * y[1])
RLt(x, y) == ~IsNaN(x) /\ ~IsNaN(y) /\ NumL(x, y) < NumR(x, y)
RLe(x, y) == ~IsNaN(x) /\ ~IsNaN(y) /\ NumL(x, y) <= NumR(x, y)
RGt(x, y) == RLt(y, x)
RSq(x) == RMul(x, x)

\* integer square root of a perfect square, by bisection
RECURSIVE ISqrtIn(_, _, _)
ISqrtIn(n, lo, hi) ==
    IF lo = hi THEN lo
    ELSE LET mid == (lo + hi + 1) \div 2
         IN  IF mid * mid <= n THEN ISqrtIn(n, mid, hi)
             ELSE ISqrtIn(n, lo, mid - 1)

ISqrt(n) == ISqrtIn(n, 0, IF n < 46340 THEN n ELSE 46340)
IsSquare(n) == n >= 0 /\ ISqrt(n) * ISqrt(n) = n

\* np.sqrt on a rational whose numerator and denominator are squares
RSqrt(x) == <<ISqrt(x[1]), ISqrt(x[2])>>
HasRSqrt(x) == ~IsNaN(x) /\ IsSquare(x[1]) /\ IsSquare(x[2])

(* Angles in [0, pi] are held by their cosine.  The code forms angles only  *)
(* as arcsin(x), pi - arcsin(x), 0 and pi, and uses them only in            *)
(* cos(b/2)**4 = ((1 + cos b)/2)**2.                                        *)
ArcSin(x) == [cos |-> RSqrt(RSub(Rat(1), RSq(x)))]
PiMinus(b) == [cos |-> RNeg(b.cos)]
ZeroAngle == [cos |-> Rat(1)]
PiAngle == [cos |-> Rat(0 - 1)]
Cos4Half(b) == RSq(RDiv(RAdd(Rat(1), b.cos), Rat(2)))

RECURSIVE RSumSeq(_)
RSumSeq(s) == IF s = <<>> THEN Rat(0) ELSE RAdd(s[1], RSumSeq(Tail(s)))

\* shape of a 2-D array held as a sequence of rows
Rows(m) == Len(m)
Cols(m) == IF m = <<>> THEN 0 ELSE Len(m[1])
\* np.zeros((r, c))
Zeros(r, c) == [i \in 1..r |-> [j \in 1..c |-> Rat(0)]]
\* np.meshgrid(x, y): two arrays of shape (len(y), len(x))
MeshX(x, y) == [i \in 1..Len(y) |-> [j \in 1..Len(x) |-> x[j]]]
MeshY(x, y) == [i \in 1..Len(y) |-> [j \in 1..Len(x) |-> y[i]]]

----------------------------------------------------------------------------
(* one_DoS_grid and one_DoS_bins.  a, smin, smax are integers (one length  *)
(* unit); R, p and the contrasts are rationals.                             *)

\* lines 326-327, 353: C[C < Cmin] = Cmin[C < Cmin]
ClipToFloor_Zero(C, Cmin) == IF RLt(C, Cmin) THEN Rat(0) ELSE C
ClipToFloor(C, Cmin) == IF RLt(C, Cmin) THEN Cmin ELSE C

\* lines 329, 332, 354: vals = inner > outer
Infeasible_Never(inner, outer) == FALSE
Infeasible(inner, outer) == RGt(inner, outer)

\* lines 321-324, 349, 351: p*(R/a)**2*cos(b/2)**4
Contrast(p, R, a, b) ==
    RMul(RMul(p, RSq(RDiv(R, Rat(a)))), Cos4Half(b))

\* lines 336, 359: a/np.sqrt(p*R**2)
Scale(p, R, a) == RDiv(Rat(a), RSqrt(RMul(p, RSq(R))))

\* lines 311-336: a grid point with smax < a
Contained(a, R, p, smin, smax, Cmin) ==
    LET b1g == ArcSin(Frac(smin, a))
        b2g == PiMinus(ArcSin(Frac(smin, a)))
        b3g == ArcSin(Frac(smax, a))
        b4g == PiMinus(ArcSin(Frac(smax, a)))
        C1g0 == Contrast(p, R, a, b1g)
        C2g0 == ClipToFloor(Contrast(p, R, a, b2g), Cmin)
        C3g0 == ClipToFloor(Contrast(p, R, a, b3g), Cmin)
        C4g0 == Contrast(p, R, a, b4g)
        vals13 == Infeasible(C3g0, C1g0)
        C3g == IF vals13 THEN Rat(0) ELSE C3g0
        C1g == IF vals13 THEN Rat(0) ELSE C1g0
        vals24 == Infeasible(C2g0, C4g0)
        C2g == IF vals24 THEN Rat(0) ELSE C2g0
        C4g == IF vals24 THEN Rat(0) ELSE C4g0
    IN  RMul(Scale(p, R, a),
             RSub(RAdd(RSub(RSqrt(C4g), RSqrt(C2g)), RSqrt(C1g)), RSqrt(C3g)))

\* lines 338-359: a grid point with smax >= a
Extended(a, R, p, smin, smax, Cmin) ==
    LET inside == smin < a          \* smin/al < 1.0
        b1l == IF inside THEN ArcSin(Frac(smin, a)) ELSE ZeroAngle
        b2l == IF inside THEN PiMinus(ArcSin(Frac(smin, a))) ELSE PiAngle
        C1l0 == IF inside THEN Contrast(p, R, a, b1l) ELSE Rat(1)
        C2l0 == ClipToFloor(IF inside THEN Contrast(p, R, a, b2l) ELSE Rat(1),
                            Cmin)
        vals == Infeasible(C2l0, C1l0)
        C1l == IF vals THEN Rat(0) ELSE C1l0
        C2l == IF vals THEN Rat(0) ELSE C2l0
    IN  RMul(Scale(p, R, a), RSub(RSqrt(C1l), RSqrt(C2l)))

\* lines 309-363 at one grid point: the two regimes, then f[smin>a] = 0.0
GridPoint(a, R, p, smin, smax, Cmin) ==
    IF smin > a THEN Rat(0)
    ELSE IF smax < a THEN Contained(a, R, p, smin, smax, Cmin)
    ELSE Extended(a, R, p, smin, smax, Cmin)

\* lines 281-365; a, R and Cmin are 2-D arrays of one shape
one_DoS_grid(a, R, p, smin, smax, Cmin) ==
    [i \in 1..Rows(a) |-> [j \in 1..Cols(a) |->
        GridPoint(a[i][j], R[i][j], p, smin, smax, Cmin[i][j])]]

\* line 392: 0.25*(tmp[:-1,:-1]+tmp[1:,:-1]+tmp[:-1,1:]+tmp[1:,1:])
CornerMean_Diagonal(corners) ==
    [i \in 1..(Rows(corners) - 1) |-> [j \in 1..(Cols(corners) - 1) |->
        RMul(Frac(1, 4),
             RAdd(RAdd(RAdd(corners[i][j], corners[i + 1][j + 1]), corners[i][j]),
                  corners[i + 1][j + 1]))]]
CornerMean(corners) ==
    [i \in 1..(Rows(corners) - 1) |-> [j \in 1..(Cols(corners) - 1) |->
        RMul(Frac(1, 4),
             RAdd(RAdd(RAdd(corners[i][j], corners[i + 1][j]), corners[i][j + 1]),
                  corners[i + 1][j + 1]))]]

\* lines 367-394
one_DoS_bins(a, R, p, smin, smax, Cmin) ==
    CornerMean(one_DoS_grid(a, R, p, smin, smax, Cmin))

----------------------------------------------------------------------------
(* DoS_sum.  Each star's contrast curve C_inst[i] is flat (every sample the *)
(* same level), so the spline Cs of line 429 is that constant and the       *)
(* quadrature of line 444 is exact.                                         *)

\* the contrast levels used: 0, (7/800)^2, (21/800)^2, (35/800)^2, ...
CminLevel(k) == IF k = 0 THEN Rat(0) ELSE RSq(Frac(14 * k - 7, 800))

\* line 429: Cs(x), linear spline through equal samples, ext=3
Cs(level, x) == level

\* line 444: integrate.quad(f, tlow, tup)[0] for the constant integrand
Quad(level, tlow, tup) == RMul(Cs(level, tlow), RSub(tup, tlow))

\* lines 433-445: expected minimum contrast at the edge aj
ExpectedCmin(aj, smin, smax, level) ==
    IF aj < smin THEN Rat(1)
    ELSE LET su == IF aj > smax THEN smax ELSE aj
             tup == RSqrt(RSub(Rat(1), RSq(Frac(smin, aj))))
             tlow == RSqrt(RSub(Rat(1), RSq(Frac(su, aj))))
             val == Quad(level, tlow, tup)
         IN  RDiv(val, RSub(tup, tlow))

\* DoS += tmp
MatAdd(m, n) ==
    [i \in 1..Rows(m) |-> [j \in 1..Cols(m) |-> RAdd(m[i][j], n[i][j])]]

\* line 427: DoS = np.zeros((aa.shape[0]-1, aa.shape[1]-1))
DoSInitial_Ones ==
    [i \in 1..(Len(d_R) - 1) |-> [j \in 1..(Len(d_a) - 1) |-> Rat(1)]]
DoSInitial == Zeros(Rows(MeshX(d_a, d_R)) - 1, Cols(MeshX(d_a, d_R)) - 1)

DoSSumStart ==
    /\ pc = "sum_start"
    /\ DoS' = DoSInitial
    /\ d_i' = 0
    /\ pc' = "sum_loop"
    /\ UNCHANGED <<d_a, d_R, d_pexp, d_smin, d_smax, d_Cinst, d_Cmin>>
    /\ UNCHANGED <<selVars, gridVars, ctorVars>>

\* lines 428-449: one iteration of the loop over the stars
DoSSumStar ==
    /\ pc = "sum_loop"
    /\ d_i < Len(d_smin)
    /\ LET i == d_i + 1
           cm == [j \in 1..Len(d_a) |->
                    ExpectedCmin(d_a[j], d_smin[i], d_smax[i], d_Cinst[i])]
           bins == one_DoS_bins(MeshX(d_a, d_R), MeshY(cm, d_R), d_pexp,
                                d_smin[i], d_smax[i], MeshX(cm, d_R))
       IN  /\ d_Cmin' = cm
           /\ DoS' = MatAdd(DoS, bins)
    /\ d_i' = d_i + 1
    /\ UNCHANGED <<pc, d_a, d_R, d_pexp, d_smin, d_smax, d_Cinst>>
    /\ UNCHANGED <<selVars, gridVars, ctorVars>>

\* line 451
DoSSumReturn ==
    /\ pc = "sum_loop"
    /\ d_i = Len(d_smin)
    /\ pc' = "sum_done"
    /\ UNCHANGED <<selVars, gridVars, sumVars, ctorVars>>

DoS_sum == DoSSumStart \/ DoSSumStar \/ DoSSumReturn

----------------------------------------------------------------------------
(* find_ck.  The integrands f12 .. f46 are built from roots of a quartic;   *)
(* the model records which integrals are taken and over which bounds, and   *)
(* takes the value of each integrate.quad call from a set fixed by the      *)
(* order of its bounds.  With amin < amax and smin < smax the factor anp is *)
(* positive.                                                                *)

\* lines 484-489: the breakpoints k1 .. k6 of one star
Breakpoints(amax, smin, smax) ==
    LET bmin == ArcSin(Frac(smin, amax))
        bmax == ArcSin(Frac(smax, amax))
        a2 == Rat(amax * amax)
    IN  [k1 |-> RDiv(Cos4Half(PiMinus(bmin)), a2),
         k2 |-> RDiv(Cos4Half(PiMinus(bmax)), a2),
         k3 |-> RDiv(Cos4Half(bmax), a2),
         k4 |-> RMul(Frac(27, 64), Frac(1, smax * smax)),
         k5 |-> RDiv(Cos4Half(bmin), a2),
         k6 |-> RMul(Frac(27, 64), Frac(1, smin * smin))]

\* line 504: kmin = Cmin/(pexp*Rexp**2)
Kmin(cmin, pexp, Rexp) == RDiv(cmin, RMul(pexp, RSq(Rexp)))

\* one call integrate.quad(f, lo, hi)
Piece(f, lo, hi) == [f |-> f, lo |-> lo, hi |-> hi]

\* lines 527-528, 534-535, 558-559, 565-566: if k2 != k3, integrate f23
Piece23(k) == IF k.k2 # k.k3 THEN <<Piece("f23", k.k2, k.k3)>> ELSE <<>>

\* lines 525-554: the integrals taken when k4 < k5
PiecesLow(k, kmin) ==
    LET tail3 == <<Piece("f34", k.k3, k.k4), Piece("f45", k.k4, k.k5),
                   Piece("f56", k.k5, k.k6)>>
    IN  IF RLt(kmin, k.k1)
            THEN <<Piece("f12", k.k1, k.k2)>> \o Piece23(k) \o tail3
        ELSE IF RGt(kmin, k.k1) /\ RLt(kmin, k.k2)
            THEN <<Piece("f12", kmin, k.k2)>> \o Piece23(k) \o tail3
        ELSE IF RGt(kmin, k.k2) /\ RLt(kmin, k.k3)
            THEN <<Piece("f23", kmin, k.k3)>> \o tail3
        ELSE IF RGt(kmin, k.k3) /\ RLt(kmin, k.k4)
            THEN <<Piece("f34", kmin, k.k4), Piece("f45", k.k4, k.k5),
                   Piece("f56", k.k5, k.k6)>>
        ELSE IF RGt(kmin, k.k4) /\ RLt(kmin, k.k5)
            THEN <<Piece("f45", kmin, k.k5), Piece("f56", k.k5, k.k6)>>
        ELSE IF RLt(kmin, k.k6)
            THEN <<Piece("f56", kmin, k.k6)>>
        ELSE <<>>

\* lines 556-585: the integrals taken when k4 >= k5
PiecesHigh(k, kmin) ==
    LET tail3 == <<Piece("f35", k.k3, k.k5), Piece("f54", k.k5, k.k4),
                   Piece("f46", k.k4, k.k6)>>
    IN  IF RLt(kmin, k.k1)
            THEN <<Piece("f12", k.k1, k.k2)>> \o Piece23(k) \o tail3
        ELSE IF RGt(kmin, k.k1) /\ RLt(kmin, k.k2)
            THEN <<Piece("f12", kmin, k.k2)>> \o Piece23(k) \o tail3
        ELSE IF RGt(kmin, k.k2) /\ RLt(kmin, k.k3)
            THEN <<Piece("f23", kmin, k.k3)>> \o tail3
        ELSE IF RGt(kmin, k.k3) /\ RLt(kmin, k.k5)
            THEN <<Piece("f35", kmin, k.k5), Piece("f54", k.k5, k.k4),
                   Piece("f46", k.k4, k.k6)>>
        ELSE IF RGt(kmin, k.k5) /\ RLt(kmin, k.k4)
            THEN <<Piece("f54", kmin, k.k4), Piece("f46", k.k4, k.k6)>>
        ELSE IF RLt(kmin, k.k6)
            THEN <<Piece("f46", kmin, k.k6)>>
        ELSE <<>>

\* lines 506-585 for one star: no integral when smin == smax
StarPieces_NoDegenerate(amax, smin, smax, kmin) ==
    LET k == Breakpoints(amax, smin, smax)
    IN  IF RLt(k.k4, k.k5) THEN PiecesLow(k, kmin) ELSE PiecesHigh(k, kmin)
StarPieces(amax, smin, smax, kmin) ==
    IF smin = smax THEN <<>>
    ELSE LET k == Breakpoints(amax, smin, smax)
         IN  IF RLt(k.k4, k.k5) THEN PiecesLow(k, kmin)
             ELSE PiecesHigh(k, kmin)

\* the values integrate.quad may return, in hundredths of the ck unit
QuadVals == {100, 200}
QuadResults(piece) ==
    IF piece.lo = piece.hi THEN {0}
    ELSE IF RLt(piece.lo, piece.hi) THEN QuadVals
    ELSE {0 - v : v \in QuadVals}

\* the values ck[i] may take: the sum of one result per integral taken
RECURSIVE CkValues(_)
CkValues(pieces) ==
    IF pieces = <<>> THEN {0}
    ELSE {v + w : v \in QuadResults(pieces[1]), w \in CkValues(Tail(pieces))}

----------------------------------------------------------------------------
(* select_obs: the 0/1 program and its solution *)

\* the candidate assignment number k of n binary variables
Assignment(k, n) == [j \in 1..n |-> (k \div Pow2(j - 1)) % 2]

Dot(c, x) == SumSeq([j \in 1..Len(x) |-> c[j] * x[j]])

\* constraint1: -infinity <= sum_j coef[j]*x[j] <= ub
SatisfiesConstraint(x) == Dot(conCoef, x) <= conUb

\* line 611: constraint1 = solver.Constraint(-infinity, maxTime)
ConstraintUpperBound_Strict == sel_max - 1
ConstraintUpperBound_Loose == sel_max + 1
ConstraintUpperBound == sel_max

\* lines 612-613: constraint1.SetCoefficient(x, t0[j])
ConstraintCoefficients_Ck == [j \in 1..Len(sel_ck) |-> sel_ck[j]]
ConstraintCoefficients == [j \in 1..Len(sel_ck) |-> sel_t0[j]]

\* lines 615-618: objective.SetCoefficient(x, ck[j]), SetMaximization()
ObjectiveCoefficients_T0 == [j \in 1..Len(sel_ck) |-> sel_t0[j]]
ObjectiveCoefficients == [j \in 1..Len(sel_ck) |-> sel_ck[j]]

\* lines 606-618: one IntVar(0,1) per entry of ck, constraint1 with
\* coefficients t0[j] and upper bound maxTime, objective coefficients ck[j]
SetUpSolver ==
    /\ pc = "sel_setup"
    /\ xs' = Len(sel_ck)
    /\ conUb' = ConstraintUpperBound
    /\ conCoef' = ConstraintCoefficients
    /\ objCoef' = ObjectiveCoefficients
    /\ node' = 0
    /\ incumbent' = <<>>
    /\ hasInc' = FALSE
    /\ pc' = "sel_solve"
    /\ UNCHANGED <<sel_t0, sel_max, sel_ck, objValue, sInds>>
    /\ UNCHANGED <<gridVars, sumVars, ctorVars>>

\* line 619, solver.Solve(): exact search of the 0/1 program.  A candidate
\* replaces the incumbent when it is feasible and strictly better; on a tie
\* either may be kept (the solver may return any optimal solution).
Improves_FirstFeasible(x) == SatisfiesConstraint(x) /\ ~hasInc
Improves(x) ==
    /\ SatisfiesConstraint(x)
    /\ \/ ~hasInc
       \/ Dot(objCoef, x) > Dot(objCoef, incumbent)

Ties(x) ==
    /\ SatisfiesConstraint(x)
    /\ hasInc
    /\ Dot(objCoef, x) = Dot(objCoef, incumbent)

SolveStep ==
    /\ pc = "sel_solve"
    /\ node < Pow2(xs)
    /\ LET x == Assignment(node, xs) IN
         \/ /\ Improves(x)
            /\ incumbent' = x
            /\ hasInc' = TRUE
         \/ /\ Ties(x)
            /\ incumbent' \in {x, incumbent}
            /\ UNCHANGED hasInc
         \/ /\ ~Improves(x)
            /\ ~Ties(x)
            /\ UNCHANGED <<incumbent, hasInc>>
    /\ node' = node + 1
    /\ UNCHANGED <<pc, sel_t0, sel_max, sel_ck, xs, conCoef, conUb, objCoef,
                   objValue, sInds>>
    /\ UNCHANGED <<gridVars, sumVars, ctorVars>>

\* line 625: sInds = np.where(xs2>0)[0]
SelectedIndices_All(xs2) == Where([j \in 1..Len(xs2) |-> xs2[j] >= 0])
SelectedIndices(xs2) == Where([j \in 1..Len(xs2) |-> xs2[j] > 0])

\* lines 620-627: read the objective value and the solution values, keep the
\* indices with x > 0.  Without a solution every solution_value() is 0.
CollectResult ==
    /\ pc = "sel_solve"
    /\ node = Pow2(xs)
    /\ LET xs2 == IF hasInc THEN incumbent ELSE [j \in 1..xs |-> 0]
       IN  /\ sInds' = SelectedIndices(xs2)
           /\ objValue' = IF hasInc THEN Dot(objCoef, incumbent) ELSE 0
    /\ pc' = "sel_done"
    /\ UNCHANGED <<sel_t0, sel_max, sel_ck, xs, conCoef, conUb, objCoef,
                   node, incumbent, hasInc>>
    /\ UNCHANGED <<gridVars, sumVars, ctorVars>>

select_obs == SetUpSolver \/ SolveStep \/ CollectResult

----------------------------------------------------------------------------
(* __init__.  Lengths are counted in a unit of two Earth radii: the code's  *)
(* values in AU are these times one common factor, which cancels in every   *)
(* ratio the code forms.  cfg holds the arguments of __init__ and what the  *)
(* EXOSIMS objects supply: the ranges of the planet population, Cmin, pexp, *)
(* Rexp, tan(IWA) and tan(OWA) of the detection mode.  The integration      *)
(* times and the contrast curves are drawn when the code asks for them.     *)

\* u.earthRad.to('AU'), in the model's length unit
EarthRad == Frac(1, 2)

\* the values calc_intTime may return, in days
TintVals == {1, 2, 3}

\* 10.0**(-0.4*calc_dMag_per_intTime(t_int2, ...)): the levels a star's
\* flat contrast curve may have
LevelVals == {CminLevel(1), CminLevel(2)}

Raise(e) ==
    /\ pc' = "raised"
    /\ err' = e

\* self.sim.TargetList.revise_lists(idx)
revise_lists_KeepAll(idx) == TL
revise_lists(idx) == Take(TL, idx)

\* lines 80-112: path, ranges of the population, checks on the radius range
CheckInputs ==
    /\ pc = "init"
    /\ LET Rmin0 == cfg.Rprange[1]
           Rmax0 == cfg.Rprange[2]
           Rmin == IF RLt(Rmin0, Frac(35, 100)) THEN Frac(35, 100) ELSE Rmin0
       IN  IF ~cfg.path
               THEN Raise("ValueError: path must be specified")
                    /\ UNCHANGED <<c_Rmin, c_Rmax>>
           ELSE IF ~RLt(Rmin0, Rat(45)) \/ ~RGt(Rmax0, Frac(35, 100))
                   \/ ~RGt(Rmax0, Rmin)
               THEN Raise("AssertionError") /\ UNCHANGED <<c_Rmin, c_Rmax>>
           ELSE /\ c_Rmin' = Rmin
                /\ c_Rmax' = Rmax0
                /\ pc' = "separations"
                /\ UNCHANGED err
    /\ UNCHANGED <<cfg, TL, c_smin, c_smax, c_tint, c_ck, c_Cinst, ckPieces, result,
                   resKeys>>
    /\ UNCHANGED <<selVars, gridVars, sumVars>>

\* lines 170-172: smin, smax from the distances; smax[smax>amax] = amax
Separations ==
    /\ pc = "separations"
    /\ c_smin' = [k \in 1..Len(TL) |-> cfg.tanIWA * TL[k]]
    /\ c_smax' = [k \in 1..Len(TL) |->
                    IF cfg.tanOWA * TL[k] > cfg.amax THEN cfg.amax
                    ELSE cfg.tanOWA * TL[k]]
    /\ pc' = "bigger"
    /\ UNCHANGED <<cfg, TL, c_Rmin, c_Rmax, c_tint, c_ck, c_Cinst, ckPieces, result,
                   resKeys, err>>
    /\ UNCHANGED <<selVars, gridVars, sumVars>>

\* lines 174-178: include only stars where smin > amin
FilterBigger ==
    /\ pc = "bigger"
    /\ LET bigger == Where([k \in 1..Len(c_smin) |-> c_smin[k] > cfg.amin])
       IN  /\ TL' = revise_lists(bigger)
           /\ c_smin' = Take(c_smin, bigger)
           /\ c_smax' = Take(c_smax, bigger)
    /\ pc' = "smaller"
    /\ UNCHANGED <<cfg, c_Rmin, c_Rmax, c_tint, c_ck, c_Cinst, ckPieces, result,
                   resKeys, err>>
    /\ UNCHANGED <<selVars, gridVars, sumVars>>

\* lines 180-184: include only stars where smin < amax
FilterSmaller ==
    /\ pc = "smaller"
    /\ LET smaller == Where([k \in 1..Len(c_smin) |-> c_smin[k] < cfg.amax])
       IN  /\ TL' = revise_lists(smaller)
           /\ c_smin' = Take(c_smin, smaller)
           /\ c_smax' = Take(c_smax, smaller)
    /\ pc' = "cutoff"
    /\ UNCHANGED <<cfg, c_Rmin, c_Rmax, c_tint, c_ck, c_Cinst, ckPieces, result,
                   resKeys, err>>
    /\ UNCHANGED <<selVars, gridVars, sumVars>>

\* lines 186-197: integration times, then remove those not below the cutoff
IntTimeCutoff ==
    /\ pc = "cutoff"
    /\ \E t_int \in [1..Len(TL) -> TintVals] :
         LET cutoff == Where([k \in 1..Len(t_int) |->
                                t_int[k] < cfg.intCutoff])
         IN  /\ TL' = revise_lists(cutoff)
             /\ c_smin' = Take(c_smin, cutoff)
             /\ c_smax' = Take(c_smax, cutoff)
             /\ c_tint' = Take(t_int, cutoff)
    /\ pc' = "find_ck"
    /\ UNCHANGED <<cfg, c_Rmin, c_Rmax, c_ck, c_Cinst, ckPieces, result,
                   resKeys, err>>
    /\ UNCHANGED <<selVars, gridVars, sumVars>>

\* line 200 and lines 453-587: ck = self.find_ck(...)
find_ck ==
    /\ pc = "find_ck"
    /\ LET kmin == Kmin(cfg.Cmin, cfg.pexp, cfg.Rexp)
           pieces == [k \in 1..Len(c_smin) |->
                        StarPieces(cfg.amax, c_smin[k], c_smax[k], kmin)]
       IN  /\ ckPieces' = pieces
           /\ \E ck \in [1..Len(c_smin) ->
                          UNION {CkValues(pieces[k]) : k \in 1..Len(c_smin)}] :
                /\ \A k \in 1..Len(c_smin) : ck[k] \in CkValues(pieces[k])
                /\ c_ck' = ck
    /\ pc' = "offset"
    /\ UNCHANGED <<cfg, TL, c_Rmin, c_Rmax, c_smin, c_smax, c_tint, c_Cinst,
                   result, resKeys, err>>
    /\ UNCHANGED <<selVars, gridVars, sumVars>>

\* what numpy raises for the minimum of an empty array
ZeroSizeReduction == "ValueError: zero-size array to reduction operation"

\* np.min of a non-empty array
RECURSIVE MinSeq(_)
MinSeq(q) ==
    IF Len(q) = 1 THEN q[1]
    ELSE LET m == MinSeq(Tail(q)) IN IF q[1] < m THEN q[1] ELSE m

\* line 202, ck += m*1e-2: the same offset added to every entry (ck is held
\* in hundredths)
AddOffset_None(ck, m) == ck
AddOffset_ZerosOnly(ck, m) ==
    [k \in 1..Len(ck) |-> IF ck[k] = 0 THEN 2 * m ELSE ck[k]]
AddOffset(ck, m) == [k \in 1..Len(ck) |-> ck[k] + (m \div 100)]

\* line 202: ck += ck[ck>0.0].min()*1e-2; min() of an empty array raises
CkOffset ==
    /\ pc = "offset"
    /\ LET positive == Take(c_ck, Where([k \in 1..Len(c_ck) |-> c_ck[k] > 0]))
       IN  IF positive = <<>>
               THEN Raise(ZeroSizeReduction) /\ UNCHANGED c_ck
           ELSE /\ c_ck' = AddOffset(c_ck, MinSeq(positive))
                /\ pc' = "call_select"
                /\ UNCHANGED err
    /\ UNCHANGED <<cfg, TL, c_Rmin, c_Rmax, c_smin, c_smax, c_tint, c_Cinst,
                   ckPieces, result, resKeys>>
    /\ UNCHANGED <<selVars, gridVars, sumVars>>

\* line 206: sInds = self.select_obs(t_int.to('day').value, maxTime, ck)
CallSelect ==
    /\ pc = "call_select"
    /\ sel_t0' = c_tint
    /\ sel_max' = cfg.maxTime
    /\ sel_ck' = c_ck
    /\ pc' = "sel_setup"
    /\ UNCHANGED <<xs, conCoef, conUb, objCoef, node, incumbent, hasInc,
                   objValue, sInds>>
    /\ UNCHANGED <<gridVars, sumVars, ctorVars>>

\* lines 209-213: include only stars chosen for observation
ReviseSelected ==
    /\ pc = "sel_done"
    /\ TL' = revise_lists(sInds)
    /\ c_smin' = Take(c_smin, sInds)
    /\ c_smax' = Take(c_smax, sInds)
    /\ c_tint' = Take(c_tint, sInds)
    /\ c_ck' = Take(c_ck, sInds)
    /\ pc' = "contrast"
    /\ UNCHANGED <<cfg, c_Rmin, c_Rmax, c_Cinst, ckPieces, result, resKeys,
                   err>>
    /\ UNCHANGED <<selVars, gridVars, sumVars>>

\* lines 215-227: the contrast array for the integration times, and
\* self.result['NumObs'] = {"all": self.sim.TargetList.nStars}
ContrastArray ==
    /\ pc = "contrast"
    /\ c_Cinst' \in [1..Len(TL) -> LevelVals]
    /\ result' = [result EXCEPT !.NumObs = Len(TL)]
    /\ resKeys' = resKeys \cup {"NumObs"}
    /\ pc' = "edges"
    /\ UNCHANGED <<cfg, TL, c_Rmin, c_Rmax, c_smin, c_smax, c_tint, c_ck,
                   ckPieces, err>>
    /\ UNCHANGED <<selVars, gridVars, sumVars>>

\* np.logspace(np.log10(lo), np.log10(hi), bins+1) for one or two bins
Logspace(lo, hi, bins) ==
    IF bins = 1 THEN <<lo, hi>> ELSE <<lo, RSqrt(RMul(lo, hi)), hi>>

\* line 230; the edges are whole numbers of the length unit
Aedges ==
    LET e == Logspace(Rat(cfg.amin), Rat(cfg.amax), cfg.abins)
    IN  [k \in 1..Len(e) |-> e[k][1]]

\* lines 231-232, in the length unit
Redges == Logspace(RMul(c_Rmin, EarthRad), RMul(c_Rmax, EarthRad), cfg.Rbins)

\* lines 230-235: the bin edges, stored in result
BinEdges ==
    /\ pc = "edges"
    /\ result' = [result EXCEPT
                    !.aedges = Aedges,
                    !.Redges = [k \in 1..Len(Redges) |->
                                  RDiv(Redges[k], EarthRad)]]
    /\ resKeys' = resKeys \cup {"aedges", "Redges"}
    /\ pc' = "dos"
    /\ UNCHANGED <<cfg, TL, c_Rmin, c_Rmax, c_smin, c_smax, c_tint, c_ck,
                   c_Cinst, ckPieces, err>>
    /\ UNCHANGED <<selVars, gridVars, sumVars>>

\* lines 237-245: DoS_sum over the stars left, or zeros when none is left
DepthOfSearch ==
    /\ pc = "dos"
    /\ IF Len(TL) > 0
           THEN /\ d_a' = Aedges
                /\ d_R' = Redges
                /\ d_pexp' = cfg.pexp
                /\ d_smin' = c_smin
                /\ d_smax' = c_smax
                /\ d_Cinst' = c_Cinst
                /\ pc' = "sum_start"
                /\ UNCHANGED <<d_i, d_Cmin, DoS>>
       ELSE /\ DoS' = Zeros(Rows(MeshX(Aedges, Redges)) - 1,
                            Cols(MeshX(Aedges, Redges)) - 1)
            /\ pc' = "store"
            /\ UNCHANGED <<d_a, d_R, d_pexp, d_smin, d_smax, d_Cinst, d_i,
                           d_Cmin>>
    /\ UNCHANGED <<selVars, gridVars, ctorVars>>

\* line 248: self.result['DoS'] = {"all": DoS}
StoreDoS ==
    /\ pc \in {"sum_done", "store"}
    /\ result' = [result EXCEPT !.DoS = DoS]
    /\ resKeys' = resKeys \cup {"DoS"}
    /\ pc' = "done"
    /\ UNCHANGED <<cfg, TL, c_Rmin, c_Rmax, c_smin, c_smax, c_tint, c_ck,
                   c_Cinst, ckPieces, err>>
    /\ UNCHANGED <<selVars, gridVars, sumVars>>

----------------------------------------------------------------------------
(* Specification of select_obs on its own: inputs from bounded sets, and   *)
(* the three-star instance t0 = [10, 20, 15], ck = [5, 8, 6], maxTime = 30 *)

T0Vals == 0..MaxT
CkVals == (0 - 1)..MaxCk
BudgetVals == 0..MaxBudget

Instance3 == [t0 |-> <<10, 20, 15>>, ck |-> <<5, 8, 6>>, maxTime |-> 30]

SelInputs ==
    { [t0 |-> t, ck |-> c, maxTime |-> m] :
        t \in UNION { [1..n -> T0Vals] : n \in 0..MaxStars },
        c \in UNION { [1..n -> CkVals] : n \in 0..MaxStars },
        m \in BudgetVals }

\* nothing set up, solved or returned yet
SolverIdle ==
    /\ xs = 0
    /\ conCoef = <<>>
    /\ conUb = 0
    /\ objCoef = <<>>
    /\ node = 0
    /\ incumbent = <<>>
    /\ hasInc = FALSE
    /\ objValue = 0
    /\ sInds = <<>>

SelectIdle ==
    /\ sel_t0 = <<>>
    /\ sel_ck = <<>>
    /\ sel_max = 0
    /\ SolverIdle

\* no call of one_DoS_bins made
GridIdle ==
    /\ g_p = Rat(1)
    /\ g_smin = 0
    /\ g_smax = 0
    /\ g_Cmin = <<>>
    /\ tmp = <<>>
    /\ fbins = <<>>
    /\ prevTmp = <<>>
    /\ prevBins = <<>>

NoResult == [NumObs |-> 0, aedges |-> <<>>, Redges |-> <<>>, DoS |-> <<>>]

\* no DoSFuncs object under construction
CtorIdle ==
    /\ cfg = [path |-> FALSE]
    /\ TL = <<>>
    /\ c_Rmin = Rat(0)
    /\ c_Rmax = Rat(0)
    /\ c_smin = <<>>
    /\ c_smax = <<>>
    /\ c_tint = <<>>
    /\ c_ck = <<>>
    /\ c_Cinst = <<>>
    /\ ckPieces = <<>>
    /\ result = NoResult
    /\ resKeys = {}
    /\ err = ""

\* no call of DoS_sum made
SumIdle ==
    /\ d_a = <<>>
    /\ d_R = <<>>
    /\ d_pexp = Rat(1)
    /\ d_smin = <<>>
    /\ d_smax = <<>>
    /\ d_Cinst = <<>>
    /\ d_i = 0
    /\ d_Cmin = <<>>
    /\ DoS = <<>>

InitSelect ==
    /\ pc = "sel_setup"
    /\ \E inp \in {i \in SelInputs : Len(i.t0) = Len(i.ck)} \cup {Instance3} :
         /\ sel_t0 = inp.t0
         /\ sel_ck = inp.ck
         /\ sel_max = inp.maxTime
    /\ SolverIdle
    /\ GridIdle
    /\ SumIdle
    /\ CtorIdle

NextSelect == SetUpSolver \/ SolveStep \/ CollectResult

SpecSelect == InitSelect /\ [][NextSelect]_vars

----------------------------------------------------------------------------
(* Properties of select_obs *)

SelDone == pc = "sel_done"

\* total of arr over an index sequence
SumOver(arr, idx) == SumSeq(Take(arr, idx))

\* total of arr over an index set
RECURSIVE SumSet(_, _)
SumSet(arr, S) ==
    IF S = {} THEN 0
    ELSE LET j == CHOOSE k \in S : TRUE IN arr[j] + SumSet(arr, S \ {j})

StarSet == 1..Len(sel_ck)
Chosen == {sInds[k] : k \in 1..Len(sInds)}
Max0(v) == IF v > 0 THEN v ELSE 0

\* C1: the stars returned by select_obs fit the time budget: the sum of t0
\* over the returned indices is at most maxTime.
C1_BudgetRespected == SelDone => SumOver(sel_t0, sInds) <= sel_max

\* a run that returned two or more stars using the whole budget
C1_Witness ==
    /\ SelDone
    /\ Len(sInds) >= 2
    /\ SumOver(sel_t0, sInds) = sel_max
    /\ \E j \in StarSet : j \notin Chosen

\* C2: the returned set is optimal: no subset of stars that fits the budget
\* has a larger total ck than the returned set.
C2_Optimal ==
    SelDone =>
        \A S \in SUBSET StarSet :
            SumSet(sel_t0, S) <= sel_max
                => SumOver(sel_ck, sInds) >= SumSet(sel_ck, S)

\* a run that left a star out although some feasible subset contains it
C2_Witness ==
    /\ SelDone
    /\ sInds # <<>>
    /\ \E S \in SUBSET StarSet :
         /\ SumSet(sel_t0, S) <= sel_max
         /\ S \ Chosen # {}
         /\ SumSet(sel_ck, S) > 0
         /\ SumSet(sel_ck, S) < SumOver(sel_ck, sInds)

IsInstance3 ==
    /\ sel_t0 = Instance3.t0
    /\ sel_ck = Instance3.ck
    /\ sel_max = Instance3.maxTime

\* C3 as stated: on t0 = [10, 20, 15], ck = [5, 8, 6], maxTime = 30 the
\* objective is 14 and exactly stars 0 and 2 are selected.
C3_AsStated ==
    (SelDone /\ IsInstance3) => (objValue = 14 /\ sInds = <<1, 3>>)

\* C3 amended: on that instance the objective is 13 and exactly stars 0 and 1
\* are selected (total time 30 <= 30).
C3_Instance ==
    (SelDone /\ IsInstance3) =>
        /\ objValue = 13
        /\ sInds = <<1, 2>>
        /\ SumOver(sel_t0, sInds) = 30

C3_Witness == SelDone /\ IsInstance3 /\ Len(sInds) = 2

\* C4 as stated: with maxTime = 0 the selection is empty and the objective
\* is 0, whatever the non-negative t0 (zeros included) and ck.
C4_AsStated == (SelDone /\ sel_max = 0) => (sInds = <<>> /\ objValue = 0)

ZeroTime == {j \in StarSet : sel_t0[j] = 0}

\* C4 amended: with maxTime = 0 every selected star has t0 = 0 and the
\* objective is the sum of the positive ck of the stars with t0 = 0; so the
\* selection is empty and the objective 0 when every t0 is positive.
C4_ZeroBudget ==
    (SelDone /\ sel_max = 0) =>
        /\ Chosen \subseteq ZeroTime
        /\ objValue = SumSet([j \in StarSet |-> Max0(sel_ck[j])], ZeroTime)
        /\ (ZeroTime = {} => (sInds = <<>> /\ objValue = 0))

\* a zero budget with both free stars of positive value and costly stars
C4_Witness ==
    /\ SelDone
    /\ sel_max = 0
    /\ \E j \in Chosen : sel_ck[j] > 0
    /\ \E j \in StarSet : sel_t0[j] > 0 /\ sel_ck[j] > 0

\* C5: if every star's integration time exceeds maxTime, nothing is selected.
C5_AllTooLong ==
    (SelDone /\ \A j \in StarSet : sel_t0[j] > sel_max) => sInds = <<>>

\* several valuable stars, each of them longer than the budget
C5_Witness ==
    /\ SelDone
    /\ Len(sel_ck) >= 2
    /\ \A j \in StarSet : sel_t0[j] > sel_max /\ sel_ck[j] > 0
    /\ sel_max > 0
    /\ sInds = <<>>

----------------------------------------------------------------------------
(* Specification of one_DoS_grid / one_DoS_bins on their own.  The corner   *)
(* grid has semi-major axes 10, 15, 20 and radii 1, 2; separations are      *)
(* drawn from 12, 16, 20, 24, so that sqrt(1 - (s/a)^2) is rational         *)
(* wherever the code takes it.                                              *)

GridA == <<10, 15, 20>>
GridR == <<Rat(1), Rat(2)>>
SepVals == {12, 16, 20, 24}
AlbedoVals == {Rat(1), Frac(1, 4)}

\* contrast floors: 0, (7/800)^2, (21/800)^2, (35/800)^2, ... and (3/2)^2
CminVals == {CminLevel(k) : k \in 0..MaxLevel} \cup {RSq(Frac(3, 2))}

aa == MeshX(GridA, GridR)
RR == MeshY(GridA, GridR)
\* np.meshgrid(Cmin, R)[0]
CC(Cmin) == MeshX(Cmin, GridR)

InitGrid ==
    /\ pc = "grid_start"
    /\ g_p \in AlbedoVals
    /\ g_smin \in SepVals
    /\ g_smax \in {s \in SepVals : g_smin <= s}
    /\ g_Cmin \in [1..Len(GridA) -> CminVals]
    /\ tmp = <<>>
    /\ fbins = <<>>
    /\ prevTmp = <<>>
    /\ prevBins = <<>>
    /\ SelectIdle
    /\ SumIdle
    /\ CtorIdle

\* one call of one_DoS_bins (which calls one_DoS_grid, line 391)
CallBins ==
    /\ pc = "grid_start"
    /\ tmp' = one_DoS_grid(aa, RR, g_p, g_smin, g_smax, CC(g_Cmin))
    /\ fbins' = one_DoS_bins(aa, RR, g_p, g_smin, g_smax, CC(g_Cmin))
    /\ pc' = "grid_done"
    /\ UNCHANGED <<g_p, g_smin, g_smax, g_Cmin, prevTmp, prevBins>>
    /\ UNCHANGED <<selVars, sumVars, ctorVars>>

\* a second call for the same star and grid with the detection floor raised
\* at one semi-major axis
CallBinsHigherFloor ==
    /\ pc = "grid_done"
    /\ \E k \in 1..Len(GridA) : \E v \in CminVals :
         LET c == [g_Cmin EXCEPT ![k] = v] IN
         /\ RLt(g_Cmin[k], v)
         /\ g_Cmin' = c
         /\ tmp' = one_DoS_grid(aa, RR, g_p, g_smin, g_smax, CC(c))
         /\ fbins' = one_DoS_bins(aa, RR, g_p, g_smin, g_smax, CC(c))
    /\ prevTmp' = tmp
    /\ prevBins' = fbins
    /\ pc' = "grid_raised"
    /\ UNCHANGED <<g_p, g_smin, g_smax>>
    /\ UNCHANGED <<selVars, sumVars, ctorVars>>

NextGrid == CallBins \/ CallBinsHigherFloor

SpecGrid == InitGrid /\ [][NextGrid]_vars

----------------------------------------------------------------------------
(* Properties of one_DoS_grid and one_DoS_bins *)

GridDone == pc \in {"grid_done", "grid_raised"}
CornerRows == 1..Len(GridR)
CornerCols == 1..Len(GridA)

\* C6: every value of one_DoS_grid is non-negative, and it is 0 at every grid
\* point with smin > a.
C6_NonNegative ==
    GridDone =>
        \A i \in CornerRows : \A j \in CornerCols :
            /\ RLe(Rat(0), tmp[i][j])
            /\ (g_smin > GridA[j] => tmp[i][j] = Rat(0))

\* a call whose grid has a positive point in each regime, a point with
\* smin > a, and a point zeroed by the floor
C6_Witness ==
    /\ GridDone
    /\ \E j \in CornerCols : g_smin > GridA[j]
    /\ \E i \in CornerRows : \E j \in CornerCols :
         g_smax < GridA[j] /\ RLt(Rat(0), tmp[i][j])
    /\ \E i \in CornerRows : \E j \in CornerCols :
         g_smax >= GridA[j] /\ RLt(Rat(0), tmp[i][j])
    /\ \E i \in CornerRows : \E j \in CornerCols :
         g_smin < GridA[j] /\ tmp[i][j] = Rat(0) /\ RLt(Rat(0), g_Cmin[j])

\* C7: raising the detection floor never raises one_DoS_grid at any grid
\* point, nor any bin value of one_DoS_bins.
C7_Monotone ==
    pc = "grid_raised" =>
        /\ \A i \in CornerRows : \A j \in CornerCols :
              RLe(tmp[i][j], prevTmp[i][j])
        /\ \A i \in 1..Rows(fbins) : \A j \in 1..Cols(fbins) :
              RLe(fbins[i][j], prevBins[i][j])

\* a higher floor that strictly lowers a positive grid value to a smaller
\* positive one
C7_Witness ==
    /\ pc = "grid_raised"
    /\ \E i \in CornerRows : \E j \in CornerCols :
         RLt(Rat(0), tmp[i][j]) /\ RLt(tmp[i][j], prevTmp[i][j])
    /\ \E i \in 1..Rows(fbins) : \E j \in 1..Cols(fbins) :
         RLt(fbins[i][j], prevBins[i][j])

\* C8: one_DoS_bins turns the (N+1, M+1) corner grid into an (N, M) array
\* whose entry (i, j) is the mean of the four corners of bin (i, j).
C8_CornerMean ==
    GridDone =>
        /\ Rows(fbins) = Rows(tmp) - 1
        /\ Cols(fbins) = Cols(tmp) - 1
        /\ \A i \in 1..Rows(fbins) : \A j \in 1..Cols(fbins) :
              RMul(Rat(4), fbins[i][j]) =
                  RSumSeq(<<tmp[i][j], tmp[i + 1][j],
                            tmp[i][j + 1], tmp[i + 1][j + 1]>>)

\* a bin whose four corner values are not all equal
C8_Witness ==
    /\ GridDone
    /\ Rows(tmp) = Len(GridR)
    /\ Cols(tmp) = Len(GridA)
    /\ \E i \in 1..Rows(fbins) : \E j \in 1..Cols(fbins) :
         /\ tmp[i][j] # tmp[i + 1][j]
         /\ tmp[i][j] # tmp[i][j + 1]
         /\ RLt(Rat(0), fbins[i][j])

----------------------------------------------------------------------------
(* Specification of DoS_sum on its own: a list of 0..MaxSumStars stars      *)

SumStars ==
    { [smin |-> lo, smax |-> hi, level |-> CminLevel(k)] :
        lo \in {12, 16, 20}, hi \in {12, 16, 20}, k \in {1, 2} }

SumStarLists ==
    UNION { [1..n -> {st \in SumStars : st.smin <= st.smax}] :
              n \in 0..MaxSumStars }

InitSum ==
    /\ pc = "sum_start"
    /\ d_a \in {GridA, <<15, 20>>}
    /\ d_R \in {GridR, <<Rat(1), Rat(2), Rat(4)>>}
    /\ d_pexp \in AlbedoVals
    /\ \E l \in SumStarLists :
         /\ d_smin = [k \in 1..Len(l) |-> l[k].smin]
         /\ d_smax = [k \in 1..Len(l) |-> l[k].smax]
         /\ d_Cinst = [k \in 1..Len(l) |-> l[k].level]
    /\ d_i = 0
    /\ d_Cmin = <<>>
    /\ DoS = <<>>
    /\ SelectIdle
    /\ GridIdle
    /\ CtorIdle

NextSum == DoSSumStart \/ DoSSumStar \/ DoSSumReturn

SpecSum == InitSum /\ [][NextSum]_vars

----------------------------------------------------------------------------
(* Properties of DoS_sum *)

\* C9: over an empty star list DoS_sum returns the all-zero grid of shape
\* (Rbins, abins), one less than the corner grid in each dimension.
C9_EmptyListZero ==
    (pc = "sum_done" /\ Len(d_smin) = 0) =>
        /\ Rows(DoS) = Len(d_R) - 1
        /\ Cols(DoS) = Len(d_a) - 1
        /\ \A i \in 1..Rows(DoS) : \A j \in 1..Cols(DoS) : DoS[i][j] = Rat(0)

\* DoS_sum has returned for an empty list on a grid with several bins
C9_Witness ==
    /\ pc = "sum_done"
    /\ Len(d_smin) = 0
    /\ d_i = 0
    /\ Rows(DoS) = 2
    /\ Cols(DoS) = 2

----------------------------------------------------------------------------
(* Specification of __init__: one construction, from the arguments and the  *)
(* target list to self.result['DoS'].  The semi-major axis range is 5 .. 20 *)
(* and the stars' distances are such that every star the separation filters *)
(* keep has smin and smax among 12, 16, 20.                                 *)

DistVals == {1, 3, 4, 5}
\* <<tan(IWA), tan(OWA)>> of the detection mode
ModeVals == {<<4, 8>>, <<3, 4>>}
\* Cmin of the detection mode; pexp = Rexp = 1, so that kmin = Cmin
ModeCminVals == {Frac(25, 40000), Frac(30, 40000), Frac(65, 40000),
                 Frac(100, 40000), Frac(130, 40000)}
\* Rprange in Earth radii: inside the supported range, below 0.35, above 45,
\* and the three ranges the assertions reject
RprangeVals == {<<Rat(2), Rat(8)>>, <<Frac(1, 5), Frac(7, 5)>>,
                <<Rat(2), Rat(50)>>, <<Rat(50), Rat(60)>>,
                <<Frac(1, 10), Frac(1, 5)>>, <<Rat(8), Rat(2)>>}

DefaultConfig ==
    [path |-> TRUE, amin |-> 5, amax |-> 20, Rprange |-> <<Rat(2), Rat(8)>>,
     abins |-> 1, Rbins |-> 1, maxTime |-> 2, intCutoff |-> 3,
     Cmin |-> Frac(100, 40000), pexp |-> Rat(1), Rexp |-> Rat(1),
     tanIWA |-> 4, tanOWA |-> 8]

\* the default configuration with the detection mode, the time budget, the
\* bins or the radius range changed
Configs ==
    { [DefaultConfig EXCEPT !.tanIWA = m[1], !.tanOWA = m[2], !.Cmin = c] :
        m \in ModeVals, c \in ModeCminVals }
    \cup { [DefaultConfig EXCEPT !.maxTime = 1] }
    \cup { [DefaultConfig EXCEPT !.abins = ab, !.Rbins = rb] :
             ab \in {1, 2}, rb \in {1, 2} }
    \cup { [DefaultConfig EXCEPT !.Rprange = r] : r \in RprangeVals }
    \cup { [DefaultConfig EXCEPT !.path = FALSE],
           [DefaultConfig EXCEPT !.amin = 20, !.amax = 5] }

\* sin of the angles the code takes for a star is 3/5, 4/5 or 1
ExactSeparation(s, amax) == HasRSqrt(RSub(Rat(1), RSq(Frac(s, amax))))

\* a star either falls to the separation filters or has exact angles
Admissible(c, dist) ==
    LET smin == c.tanIWA * dist
        smax == IF c.tanOWA * dist > c.amax THEN c.amax ELSE c.tanOWA * dist
    IN  \/ ~(smin > c.amin)
        \/ ~(smin < c.amax)
        \/ ExactSeparation(smin, c.amax) /\ ExactSeparation(smax, c.amax)

Init ==
    /\ pc = "init"
    /\ cfg \in Configs
    /\ TL \in UNION { [1..n -> DistVals] : n \in 0..MaxCtorStars }
    /\ \A k \in 1..Len(TL) : Admissible(cfg, TL[k])
    /\ c_Rmin = Rat(0)
    /\ c_Rmax = Rat(0)
    /\ c_smin = <<>>
    /\ c_smax = <<>>
    /\ c_tint = <<>>
    /\ c_ck = <<>>
    /\ c_Cinst = <<>>
    /\ ckPieces = <<>>
    /\ result = NoResult
    /\ resKeys = {}
    /\ err = ""
    /\ SelectIdle
    /\ GridIdle
    /\ SumIdle

Next ==
    \/ CheckInputs
    \/ Separations
    \/ FilterBigger
    \/ FilterSmaller
    \/ IntTimeCutoff
    \/ find_ck
    \/ CkOffset
    \/ CallSelect
    \/ SetUpSolver
    \/ SolveStep
    \/ CollectResult
    \/ ReviseSelected
    \/ ContrastArray
    \/ BinEdges
    \/ DepthOfSearch
    \/ DoSSumStart
    \/ DoSSumStar
    \/ DoSSumReturn
    \/ StoreDoS

Spec == Init /\ [][Next]_vars

----------------------------------------------------------------------------
(* Properties of __init__ *)

\* the filters of lines 174-197 kept no star: find_ck has been called on the
\* empty list
FilteredToNone ==
    /\ pc \notin {"init", "separations", "bigger", "smaller", "cutoff",
                  "find_ck"}
    /\ err \in {"", ZeroSizeReduction}
    /\ ckPieces = <<>>

\* C10 as stated: when the filters smin > amin, smin < amax and
\* t_int < intCutoff leave no stars, the run raises nothing (find_ck, the ck
\* offset and select_obs all complete on the empty list) and ends with
\* result['DoS'] stored as an all-zero grid.
C10_AsStated ==
    FilteredToNone =>
        /\ pc # "raised"
        /\ pc = "done" =>
             /\ "DoS" \in resKeys
             /\ \A i \in 1..Rows(result.DoS) : \A j \in 1..Cols(result.DoS) :
                  result.DoS[i][j] = Rat(0)

----------------------------------------------------------------------------
(* Specification of find_ck on its own: one call with amax = 25 and stars   *)
(* whose separations are among 7, 15, 20, 24, 25 (sines 7/25, 3/5, 4/5,     *)
(* 24/25, 1), as __init__ passes them: amin < smin < amax and               *)
(* smin <= smax <= amax.  Both orders of k4 and k5 occur.  kmin is a        *)
(* breakpoint of one of the stars or a value strictly between, below or     *)
(* above the breakpoints.                                                   *)

CkAmax == 25
CkSminVals == {7, 15, 20, 24}
CkSmaxVals == {7, 15, 20, 24, 25}
CkStarVals == {st \in CkSminVals \X CkSmaxVals : st[1] <= st[2]}

\* values that fall strictly between neighbouring breakpoints of these stars,
\* one below the least breakpoint and one above the greatest
BetweenBreakpoints ==
    {Frac(3, 10000000)} \cup
    {Frac(n, 100000) : n \in {1, 3, 10, 30, 50, 66, 70, 90, 104, 120, 140,
                              170, 500, 1000}}

BreakpointSet(st) ==
    LET k == Breakpoints(CkAmax, st[1], st[2])
    IN  {k.k1, k.k2, k.k3, k.k4, k.k5, k.k6}

KminProbes(stars) ==
    BetweenBreakpoints \cup UNION {BreakpointSet(stars[i]) : i \in 1..Len(stars)}

InitCk ==
    /\ pc = "find_ck"
    /\ \E stars \in UNION {[1..n -> CkStarVals] : n \in 0..MaxCkStars} :
         /\ c_smin = [i \in 1..Len(stars) |-> stars[i][1]]
         /\ c_smax = [i \in 1..Len(stars) |-> stars[i][2]]
         /\ cfg \in {[DefaultConfig EXCEPT !.amax = CkAmax, !.Cmin = kmin] :
                       kmin \in KminProbes(stars)}
    /\ TL = <<>>
    /\ c_Rmin = Rat(0)
    /\ c_Rmax = Rat(0)
    /\ c_tint = <<>>
    /\ c_ck = <<>>
    /\ c_Cinst = <<>>
    /\ ckPieces = <<>>
    /\ result = NoResult
    /\ resKeys = {}
    /\ err = ""
    /\ SelectIdle
    /\ GridIdle
    /\ SumIdle

NextCk == find_ck

SpecCk == InitCk /\ [][NextCk]_vars

----------------------------------------------------------------------------
(* Properties of find_ck *)

\* find_ck has returned
CkDone == pc = "offset"
CkStars == 1..Len(c_ck)
CkKmin == Kmin(cfg.Cmin, cfg.pexp, cfg.Rexp)
CkBreakpoints(i) == Breakpoints(cfg.amax, c_smin[i], c_smax[i])

----------------------------------------------------------------------------
(* More properties of __init__ *)

\* the step of line 202 when it does not raise
OffsetStep == pc = "offset" /\ pc' = "call_select"

\* C12: the offset of line 202 preserves order: after it, no star whose ck
\* was positive has a smaller ck than a star whose ck was exactly zero.
C12_OffsetKeepsOrder ==
    [][OffsetStep =>
         \A i \in 1..Len(c_ck) : \A j \in 1..Len(c_ck) :
             (c_ck[i] > 0 /\ c_ck[j] = 0) => c_ck'[i] >= c_ck'[j]]_vars

\* after the offset: a star for which no integral was taken (ck was 0) next
\* to a star with integrals, the latter with the larger ck
C12_Witness ==
    /\ pc = "call_select"
    /\ \E i \in 1..Len(c_ck) : \E j \in 1..Len(c_ck) :
         /\ ckPieces[i] # <<>>
         /\ ckPieces[j] = <<>>
         /\ c_ck[j] > 0
         /\ c_ck[i] > c_ck[j]

\* the population's ranges as given: maximum below minimum
RadiusRangeReversed == RLt(cfg.Rprange[2], cfg.Rprange[1])
AxisRangeReversed == cfg.amax < cfg.amin

\* C13 as stated: when the maximum planetary radius is less than the minimum,
\* and likewise when the maximum semi-major axis is less than the minimum,
\* construction fails at once: it never gets past the input checks to the
\* separations, the filters, find_ck, select_obs or DoS_sum.
C13_AsStated ==
    (cfg.path /\ (RadiusRangeReversed \/ AxisRangeReversed)) =>
        /\ pc \in {"init", "raised"}
        /\ ckPieces = <<>>
        /\ err # ZeroSizeReduction

----------------------------------------------------------------------------
(* More properties of find_ck *)

\* the breakpoints of star i in the chosen order, and the integrand between
\* each two neighbours
CkOrder(i) ==
    LET k == CkBreakpoints(i)
    IN  IF RLt(k.k4, k.k5) THEN <<k.k1, k.k2, k.k3, k.k4, k.k5, k.k6>>
        ELSE <<k.k1, k.k2, k.k3, k.k5, k.k4, k.k6>>

CkIntegrands(i) ==
    LET k == CkBreakpoints(i)
    IN  IF RLt(k.k4, k.k5) THEN <<"f12", "f23", "f34", "f45", "f56">>
        ELSE <<"f12", "f23", "f35", "f54", "f46">>

RMax(x, y) == IF RLt(x, y) THEN y ELSE x

\* the integrals of a list that have a width
RECURSIVE WithWidth(_)
WithWidth(pieces) ==
    IF pieces = <<>> THEN <<>>
    ELSE IF pieces[1].lo = pieces[1].hi THEN WithWidth(Tail(pieces))
    ELSE <<pieces[1]>> \o WithWidth(Tail(pieces))

\* one scan of the ordered breakpoints: every piece whose upper breakpoint
\* lies above kmin, started at max(kmin, lower breakpoint)
RECURSIVE ScanFrom(_, _, _, _)
ScanFrom(n, order, fs, kmin) ==
    IF n > Len(fs) THEN <<>>
    ELSE (IF RGt(order[n + 1], kmin)
              THEN <<Piece(fs[n], RMax(kmin, order[n]), order[n + 1])>>
          ELSE <<>>) \o ScanFrom(n + 1, order, fs, kmin)

C14_Expected(i) == WithWidth(ScanFrom(1, CkOrder(i), CkIntegrands(i), CkKmin))

\* C14 as stated: for a star with smin != smax the integrals taken are exactly
\* the consecutive pieces whose upper breakpoint lies above kmin, the first
\* started at max(kmin, its lower breakpoint), for every kmin, kmin equal to
\* one of k1..k5 included.
C14_AsStated ==
    CkDone =>
        \A i \in CkStars :
            c_smin[i] # c_smax[i] => WithWidth(ckPieces[i]) = C14_Expected(i)

\* the same for kmin different from every breakpoint of the star
C14_OffBreakpoints ==
    CkDone =>
        \A i \in CkStars :
            (c_smin[i] # c_smax[i] /\ CkKmin \notin BreakpointSet(<<c_smin[i], c_smax[i]>>))
                => WithWidth(ckPieces[i]) = C14_Expected(i)

----------------------------------------------------------------------------
(* More properties of DoS_sum *)

\* C15 as stated: the zero-width interval is special-cased, so that for every
\* star and every edge a[j] >= smin the quotient val/(tup - tlow) is never
\* formed with tup == tlow, and every Cmin[j] is a defined value (no 0/0).
C15_AsStated ==
    \A j \in 1..Len(d_Cmin) : ~IsNaN(d_Cmin[j])

----------------------------------------------------------------------------
(* More properties of __init__ *)

\* C16 as stated: a minimum radius below 0.35 is reset to 0.35 and a maximum
\* radius above 45.0 is reset to 45.0, so the edges stored in
\* result['Redges'] always lie within [0.35, 45.0] Earth radii.
C16_AsStated ==
    "Redges" \in resKeys =>
        \A k \in 1..Len(result.Redges) :
            /\ RLe(Frac(35, 100), result.Redges[k])
            /\ RLe(result.Redges[k], Rat(45))

\* the lower half of C16, which the code does keep: no stored edge is below
\* 0.35 Earth radii
C16_LowerClamp ==
    "Redges" \in resKeys =>
        \A k \in 1..Len(result.Redges) : RLe(Frac(35, 100), result.Redges[k])

\* positions of __init__: after the separations, after the three filters,
\* after find_ck, after the selection was applied, inside DoS_sum
AfterSeparations ==
    pc \notin {"init", "separations", "raised"}
AfterFilters ==
    AfterSeparations /\ pc \notin {"bigger", "smaller", "cutoff"}
AfterFindCk ==
    AfterFilters /\ pc # "find_ck"
AfterSelection ==
    AfterFindCk /\ pc \notin {"offset", "call_select", "sel_setup",
                              "sel_solve", "sel_done"}
InDoSSum == pc \in {"sum_start", "sum_loop", "sum_done"}

\* smin[k], smax[k] are those of star k of the target list
SeparationsAligned ==
    /\ Len(c_smin) = Len(TL)
    /\ Len(c_smax) = Len(TL)
    /\ \A k \in 1..Len(TL) :
         /\ c_smin[k] = cfg.tanIWA * TL[k]
         /\ c_smax[k] = IF cfg.tanOWA * TL[k] > cfg.amax THEN cfg.amax
                        ELSE cfg.tanOWA * TL[k]

\* every star left passes the three filters
StarsPassFilters ==
    /\ Len(c_tint) = Len(TL)
    /\ \A k \in 1..Len(TL) :
         /\ cfg.amin < c_smin[k]
         /\ c_smin[k] < cfg.amax
         /\ c_smax[k] <= cfg.amax
         /\ c_tint[k] < cfg.intCutoff

\* t_int and ck are those select_obs was given for the stars it returned, and
\* the ck of star k came from the integrals for its own smin and smax
SelectionAligned ==
    /\ Len(TL) = Len(sInds)
    /\ c_tint = Take(sel_t0, sInds)
    /\ c_ck = Take(sel_ck, sInds)
    /\ \A k \in 1..Len(TL) :
         ckPieces[sInds[k]] =
             StarPieces(cfg.amax, c_smin[k], c_smax[k],
                        Kmin(cfg.Cmin, cfg.pexp, cfg.Rexp))

\* C17: the arrays smin, smax, t_int and ck stay index-aligned with the
\* target list through the filters and the selection; DoS_sum runs only over
\* the stars select_obs returned, each of which has amin < smin < amax,
\* smax <= amax and t_int < intCutoff; result['NumObs'] is their number.
C17_PipelineOrder ==
    /\ AfterSeparations => SeparationsAligned
    /\ AfterFilters => StarsPassFilters
    /\ AfterFindCk => Len(c_ck) = Len(TL)
    /\ AfterSelection => SelectionAligned
    /\ InDoSSum =>
         /\ d_smin = c_smin
         /\ d_smax = c_smax
         /\ d_Cinst = c_Cinst
         /\ Len(d_Cinst) = Len(TL)
         /\ Len(TL) > 0
    /\ "NumObs" \in resKeys => result.NumObs = Len(sInds)

\* a finished run in which select_obs was given two different stars and
\* returned the second only, with a DoS grid that is not all zero
C17_Witness ==
    /\ pc = "done"
    /\ Len(sel_t0) = 2
    /\ ckPieces[1] # ckPieces[2]
    /\ sInds = <<2>>
    /\ result.NumObs = 1
    /\ \E i \in 1..Rows(result.DoS) : \E j \in 1..Cols(result.DoS) :
         RGt(result.DoS[i][j], Rat(0))

\* select_obs has been called by __init__ (line 206)
SelectInvoked == pc \in {"sel_setup", "sel_solve", "sel_done"}

----------------------------------------------------------------------------
(* More properties of select_obs *)

\* C19: when every ck is strictly positive (and the times are non-negative),
\* the returned set cannot be extended: for every star j not returned, the
\* time of the returned stars plus t0[j] exceeds maxTime.
C19_Maximal ==
    (SelDone /\ \A j \in StarSet : sel_ck[j] > 0 /\ sel_t0[j] >= 0) =>
        \A j \in StarSet \ Chosen :
            SumOver(sel_t0, sInds) + sel_t0[j] > sel_max

\* a run with positive ck that returned some stars, left one out and did not
\* use the whole budget
C19_Witness ==
    /\ SelDone
    /\ \A j \in StarSet : sel_ck[j] > 0
    /\ sInds # <<>>
    /\ StarSet \ Chosen # {}
    /\ SumOver(sel_t0, sInds) < sel_max

====
